---- MODULE Spec2Model ----
(***************************************************************************)
(* Model of the ACO (Adobe Color Swatch) reader, package acoreader:        *)
(* util.py (byte reads), _types.py (ColorSpace, ColorSwatch), reader.py    *)
(* (interpret_colors, read_color_values, read_file) and swatch.py          *)
(* (read_next_swatch).                                                     *)
(*                                                                         *)
(* Conventions:                                                            *)
(*   - a byte is an integer in 0..255, a file is a sequence of bytes and   *)
(*     the read position is a 0-based offset;                              *)
(*   - a Python exception is a string naming its kind, "none" when nothing *)
(*     is raised; ValueErrors is the set of kinds that are instances of    *)
(*     ValueError (what `except ValueError` catches);                      *)
(*   - a float is the exact fraction [num, den], nan and the infinities    *)
(*     having den = 0;                                                     *)
(*   - a str is the sequence of its UTF-16 code units;                     *)
(*   - read_file is called with an xargs dict, as main.py:147 does.        *)
(***************************************************************************)
EXTENDS Integers, Sequences, FiniteSets, TLC

\* ------------------------------------------------------------------ bounds
MaxCount == 2
MaxEntries == 2
MaxCut == 4

\* --------------------------------------------------------------- utilities
Min(a, b) == IF a < b THEN a ELSE b

Reverse(s) == [i \in 1..Len(s) |-> s[Len(s) + 1 - i]]

Range(s) == {s[i] : i \in 1..Len(s)}

\* F applied to the value of v: an assignment `x = v` followed by F(x).
Let(v, F(_)) == CHOOSE y \in {F(x) : x \in {v}} : TRUE

\* ------------------------------------------------------- util.py: reads
\* BytesIO.read(n) at offset p: at most n bytes, fewer at the end of file.
file_read(b, p, n) == SubSeq(b, p + 1, Min(p + n, Len(b)))

\* `if (sys.byteorder == 'little'): _c = _c[::-1]`
byteswap(c, bo) == IF bo = "little" THEN Reverse(c) ELSE c

\* The two bytes memmove(pointer(_v), _c, 2) copies out of the bytes object
\* _c: its content, then its NUL terminator, then (only for the empty
\* object) one byte g that lies behind the terminator.
memmove2(c, g) == SubSeq(c \o <<0, g>>, 1, 2)

\* Value of a c_uint16 whose two bytes in memory are m.
c_uint16_value(m, bo) ==
  IF bo = "little" THEN m[1] + 256 * m[2] ELSE 256 * m[1] + m[2]

\* Value of a c_int16 whose two bytes in memory are m.
c_int16_value(m, bo) ==
  LET u == c_uint16_value(m, bo)
  IN IF u >= 32768 THEN u - 65536 ELSE u

\* A 32-bit unsigned value hi * 65536 + lo, kept as its two 16-bit halves.
U32(hi, lo) == [hi |-> hi, lo |-> lo]

\* min(x, k) for a 32-bit value x and a small k >= 0.
U32Min(x, k) == IF x.hi > 0 THEN k ELSE Min(x.lo, k)

\* Value of a c_uint32(0) after its first two bytes in memory became m.
c_uint32_value(m, bo) ==
  IF bo = "little" THEN U32(0, m[1] + 256 * m[2])
  ELSE U32(256 * m[1] + m[2], 0)

\* short: the read got fewer bytes than it asked for.
read_uint16(b, p, bo, g) ==
  LET _c == byteswap(file_read(b, p, 2), bo)
  IN [value |-> c_uint16_value(memmove2(_c, g), bo),
      pos |-> p + Len(_c), short |-> Len(_c) < 2, err |-> "none"]

read_int16(b, p, bo, g) ==
  LET _c == byteswap(file_read(b, p, 2), bo)
  IN [value |-> c_int16_value(memmove2(_c, g), bo),
      pos |-> p + Len(_c), short |-> Len(_c) < 2, err |-> "none"]

\* memmove copies sizeof(c_uint16) = 2 bytes of the 4 that were read.
read_uint32(b, p, bo, g) ==
  LET _c == byteswap(file_read(b, p, 4), bo)
  IN [value |-> c_uint32_value(memmove2(_c, g), bo),
      pos |-> p + Len(_c), short |-> Len(_c) < 4, err |-> "none"]

\* bytes.decode('UTF16') of the (already swapped) bytes c on a little-endian
\* build: no BOM means native order; a lone BOM decodes to the empty string;
\* a lone surrogate or a single byte raises UnicodeDecodeError.
decode_utf16(c) ==
  IF Len(c) = 0 THEN [err |-> "none", text |-> <<>>]
  ELSE IF Len(c) = 1 THEN [err |-> "UnicodeDecodeError", text |-> <<>>]
  ELSE LET u == c[1] + 256 * c[2]
       IN IF u = 65279 \/ u = 65534 THEN [err |-> "none", text |-> <<>>]
          ELSE IF u >= 55296 /\ u <= 57343
            THEN [err |-> "UnicodeDecodeError", text |-> <<>>]
          ELSE [err |-> "none", text |-> <<u>>]

\* _r.replace('\0', '')
strip_nul(r) == SelectSeq(r, LAMBDA u : u # 0)

\* The loop of read_string on a little-endian build, n iterations left.
\* Once the position is at the end of the file every further read returns
\* b'' and adds '' to _r, so the remaining iterations change nothing.
RECURSIVE read_string_loop(_, _, _, _)
read_string_loop(b, p, n, r) ==
  IF n = 0 \/ p >= Len(b) THEN [r |-> r, pos |-> p, err |-> "none"]
  ELSE LET _c == Reverse(file_read(b, p, 2))
           d == decode_utf16(_c)
       IN IF d.err # "none" THEN [r |-> r, pos |-> p + Len(_c), err |-> d.err]
          ELSE read_string_loop(b, p + 2, n - 1, r \o d.text)

\* On a big-endian build the decode (indented under the byte-order test) is
\* never run: the loop only advances the position and _r stays ''.
\* length is a 32-bit value; iterations beyond Len(b) find the file at its
\* end on either build.
read_string(b, p, length, bo) ==
  LET n == U32Min(length, Len(b))
      short == length.hi > 0 \/ p + 2 * length.lo > Len(b)
  IN IF bo = "little"
     THEN Let(read_string_loop(b, p, n, <<>>), LAMBDA l :
            [value |-> strip_nul(l.r), pos |-> l.pos, short |-> short,
             err |-> l.err])
     ELSE [value |-> <<>>, pos |-> Min(Len(b), p + 2 * n),
           short |-> short, err |-> "none"]

\* ------------------------------------------------------ _types.py: spaces
\* The members of the enum ColorSpace, by name.
ColorSpace ==
  {"RGB", "HSB", "CMYK", "PANTONE", "FOCOLTONE", "TRUMATCH", "TOYO88",
   "LAB", "GRAYSCALE", "HKS", "UNSET"}

\* ColorSpace.<member>.value
ColorSpace_value(cs) ==
  CASE cs = "RGB" -> 0
    [] cs = "HSB" -> 1
    [] cs = "CMYK" -> 2
    [] cs = "PANTONE" -> 3
    [] cs = "FOCOLTONE" -> 4
    [] cs = "TRUMATCH" -> 5
    [] cs = "TOYO88" -> 6
    [] cs = "LAB" -> 7
    [] cs = "GRAYSCALE" -> 8
    [] cs = "HKS" -> 10
    [] cs = "UNSET" -> -1

\* from_value with HKS taken for code 9, as if the codes were contiguous.
from_value_contiguous(value) ==
  IF value = 0 THEN "RGB"
  ELSE IF value = 1 THEN "HSB"
  ELSE IF value = 2 THEN "CMYK"
  ELSE IF value = 3 THEN "PANTONE"
  ELSE IF value = 4 THEN "FOCOLTONE"
  ELSE IF value = 5 THEN "TRUMATCH"
  ELSE IF value = 6 THEN "TOYO88"
  ELSE IF value = 7 THEN "LAB"
  ELSE IF value = 8 THEN "GRAYSCALE"
  ELSE IF value = 9 THEN "HKS"
  ELSE "UNSET"

from_value(value) ==
  IF value = 0 THEN "RGB"
  ELSE IF value = 1 THEN "HSB"
  ELSE IF value = 2 THEN "CMYK"
  ELSE IF value = 3 THEN "PANTONE"
  ELSE IF value = 4 THEN "FOCOLTONE"
  ELSE IF value = 5 THEN "TRUMATCH"
  ELSE IF value = 6 THEN "TOYO88"
  ELSE IF value = 7 THEN "LAB"
  ELSE IF value = 8 THEN "GRAYSCALE"
  ELSE IF value = 10 THEN "HKS"
  ELSE "UNSET"

\* The kinds of exception that are instances of ValueError.
ValueErrors ==
  {"unsupported_version", "unhandled_color_space", "already_set",
   "color_space_not_set", "out_of_range", "arity_mismatch",
   "too_few_values", "uninterpretable_color_space", "UnicodeDecodeError"}

\* The exception validate_color_space raises, "none" when it returns.
validate_color_space(color_space) ==
  IF ColorSpace_value(color_space) \in {-1, 3, 4, 5, 6, 10}
  THEN "unhandled_color_space" ELSE "none"

Limit(max, min) == [_max |-> max, _min |-> min]

\* The keys of COLOR_SPACE_LIMITS and of COLOR_SPACE_LABELS.
TableSpaces == {"RGB", "HSB", "CMYK", "LAB", "GRAYSCALE"}

COLOR_SPACE_LIMITS(cs) ==
  CASE cs = "RGB" -> <<Limit(255, 0), Limit(255, 0), Limit(255, 0)>>
    [] cs = "HSB" -> <<Limit(100, 0), Limit(100, 0), Limit(100, 0)>>
    [] cs = "CMYK" ->
         <<Limit(100, 0), Limit(100, 0), Limit(100, 0), Limit(100, 0)>>
    [] cs = "LAB" -> <<Limit(100, 0), Limit(127, -128), Limit(127, -128)>>
    [] cs = "GRAYSCALE" -> <<Limit(100, 0)>>

COLOR_SPACE_LABELS(cs) ==
  CASE cs = "RGB" -> <<"RED", "GREEN", "BLUE">>
    [] cs = "HSB" -> <<"HUE", "SATURATION", "BRIGHTNESS">>
    [] cs = "CMYK" -> <<"CYAN", "MAGENTA", "YELLOW", "BLACK">>
    [] cs = "LAB" -> <<"LIGHTNESS", "CHROMINANCE_A", "CHROMINANCE_B">>
    [] cs = "GRAYSCALE" -> <<"BRIGHTNESS">>

\* ------------------------------------------------- _types.py: ColorSwatch
\* A float: the number num/den when den > 0; with den = 0 the special
\* values nan (num = 0), inf (num = 1) and -inf (num = -1). Every
\* comparison with nan is false.
Frac(num, den) == [num |-> num, den |-> den]

nan == Frac(0, 0)

\* v < k and v > k for a float v and an integer limit k.

FracLess(v, k) == v.num < k * v.den

FracGreater(v, k) == v.num > k * v.den

\* The object __init__ has before its three assignments; _color_space None
\* is "None", _color_values None is << >> (a dict the setter stores always
\* has at least one key).
ColorSwatch_new ==
  [name |-> <<>>, _color_space |-> "None", _color_values |-> <<>>]

\* The property color_space (getter).
color_space(self) ==
  IF self._color_space = "None" THEN "UNSET" ELSE self._color_space

\* The setter without its test that the colour space is still UNSET.
set_color_space_overwrite(self, cs) ==
  IF validate_color_space(cs) # "none"
  THEN [err |-> validate_color_space(cs), self |-> self]
  ELSE [err |-> "none", self |-> [self EXCEPT !._color_space = cs]]

\* The setter of color_space: the exception raised and the object after.
set_color_space(self, cs) ==
  IF validate_color_space(cs) # "none"
  THEN [err |-> validate_color_space(cs), self |-> self]
  ELSE IF color_space(self) = "UNSET"
  THEN [err |-> "none", self |-> [self EXCEPT !._color_space = cs]]
  ELSE [err |-> "already_set", self |-> self]

\* The first loop of the setter of color_values: the exception raised at
\* the first index whose limit is missing or violated.
RECURSIVE check_limits(_, _, _)
check_limits(limits, values, i) ==
  IF i > Len(values) THEN "none"
  ELSE IF i > Len(limits) THEN "IndexError"
  ELSE IF FracLess(values[i], limits[i]._min)
          \/ FracGreater(values[i], limits[i]._max) THEN "out_of_range"
  ELSE check_limits(limits, values, i + 1)

\* The setter filling the mapping of the object before it validates.
set_color_values_partial(self, values) ==
  IF color_space(self) \notin TableSpaces
  THEN [err |-> "color_space_not_set", self |-> self]
  ELSE LET limits == COLOR_SPACE_LIMITS(color_space(self))
           value_labels == COLOR_SPACE_LABELS(color_space(self))
           e == check_limits(limits, values, 1)
           filled == [self EXCEPT !._color_values =
                        [i \in 1..Min(Len(value_labels), Len(values)) |->
                           [label |-> value_labels[i], value |-> values[i]]]]
       IN IF e # "none" THEN [err |-> e, self |-> filled]
          ELSE IF Len(value_labels) # Len(values)
          THEN [err |-> "arity_mismatch", self |-> filled]
          ELSE [err |-> "none", self |-> filled]

\* The setter of color_values.
set_color_values(self, values) ==
  IF color_space(self) \notin TableSpaces
  THEN [err |-> "color_space_not_set", self |-> self]
  ELSE LET limits == COLOR_SPACE_LIMITS(color_space(self))
           value_labels == COLOR_SPACE_LABELS(color_space(self))
           e == check_limits(limits, values, 1)
       IN IF e # "none" THEN [err |-> e, self |-> self]
          ELSE IF Len(value_labels) # Len(values)
          THEN [err |-> "arity_mismatch", self |-> self]
          ELSE [err |-> "none",
                self |-> [self EXCEPT !._color_values =
                  [i \in 1..Len(value_labels) |->
                     [label |-> value_labels[i], value |-> values[i]]]]]

\* ColorSwatch(name, color_space, values): the exception raised, and the
\* object when none is.
ColorSwatch_init(name, cs, values) ==
  LET s0 == [ColorSwatch_new EXCEPT !.name = name]
      s1 == set_color_space(s0, cs)
      s2 == set_color_values(s1.self, values)
  IN IF s1.err # "none" THEN [err |-> s1.err, self |-> s0]
     ELSE [err |-> s2.err, self |-> s2.self]

\* f'{v:.2f}' of a number v: v in hundredths, rounded to nearest, ties to
\* even.
format_2f(v) ==
  LET n == 100 * v.num
      q == n \div v.den
      r == 2 * (n - q * v.den)
  IN IF r < v.den THEN q
     ELSE IF r > v.den THEN q + 1
     ELSE IF q % 2 = 0 THEN q ELSE q + 1

\* The label left as it is in COLOR_SPACE_LABELS.
lower_unchanged(label) == label

\* str.lower() of a channel label.
lower(label) ==
  CASE label = "RED" -> "red" [] label = "GREEN" -> "green"
    [] label = "BLUE" -> "blue" [] label = "HUE" -> "hue"
    [] label = "SATURATION" -> "saturation"
    [] label = "BRIGHTNESS" -> "brightness"
    [] label = "CYAN" -> "cyan" [] label = "MAGENTA" -> "magenta"
    [] label = "YELLOW" -> "yellow" [] label = "BLACK" -> "black"
    [] label = "LIGHTNESS" -> "lightness"
    [] label = "CHROMINANCE_A" -> "chrominance_a"
    [] label = "CHROMINANCE_B" -> "chrominance_b"

\* A line of the text block: its fixed text and what is filled in.
Line(text, key, arg) == [text |-> text, key |-> key, arg |-> arg]

\* f'        {k.lower()} = {v:.2f},': a special value is written by name.
value_line(k, v) ==
  IF v.den # 0 THEN Line("        <> = <>,", lower(k), <<format_2f(v)>>)
  ELSE IF v.num = 0 THEN Line("        <> = nan,", lower(k), <<>>)
  ELSE IF v.num > 0 THEN Line("        <> = inf,", lower(k), <<>>)
  ELSE Line("        <> = -inf,", lower(k), <<>>)

\* ColorSwatch.__str__: the lines of the block, in order.
ColorSwatch_str(self) ==
  <<Line("ColorSwatch {", "", <<>>),
    Line("    name: '<>',", "", self.name),
    Line("    color_space: <>,", color_space(self), <<>>),
    Line("    values: {", "", <<>>)>>
  \o [i \in 1..Len(self._color_values) |->
        value_line(self._color_values[i].label, self._color_values[i].value)]
  \o <<Line("    }", "", <<>>), Line("}", "", <<>>), Line("", "", <<>>)>>

\* ------------------------------------------------------ reader.py: decode
\* Each decoder: the exception raised and the list returned.
\* decode_rgb dividing by 257, so that 65535 becomes 255.
decode_rgb_257(values) ==
  IF Len(values) < 3 THEN [err |-> "too_few_values", vals |-> <<>>]
  ELSE [err |-> "none", vals |-> [i \in 1..3 |-> Frac(values[i], 257)]]

decode_rgb(values) ==
  IF Len(values) < 3 THEN [err |-> "too_few_values", vals |-> <<>>]
  ELSE [err |-> "none", vals |-> [i \in 1..3 |-> Frac(values[i], 256)]]

\* v / 182.04 and v / 655.35 as 100 v / 18204 and 100 v / 65535.
decode_hsb(values) ==
  IF Len(values) < 3 THEN [err |-> "too_few_values", vals |-> <<>>]
  ELSE [err |-> "none",
        vals |-> <<Frac(100 * values[1], 18204),
                   Frac(100 * values[2], 65535),
                   Frac(100 * values[3], 65535)>>]

decode_cmyk(values) ==
  IF Len(values) < 4 THEN [err |-> "too_few_values", vals |-> <<>>]
  ELSE [err |-> "none",
        vals |-> [i \in 1..Len(values) |-> Frac(100 * values[i], 65535)]]

\* decode_lab clamping each word to what its limits allow.
decode_lab_clamped(values) ==
  IF Len(values) < 3 THEN [err |-> "too_few_values", vals |-> <<>>]
  ELSE [err |-> "none",
        vals |-> <<Frac(Min(values[1], 10000), 100),
                   Frac(Min(IF values[2] < 0 - 12800 THEN 0 - 12800 ELSE values[2],
                            12700), 100),
                   Frac(Min(IF values[3] < 0 - 12800 THEN 0 - 12800 ELSE values[3],
                            12700), 100)>>]

decode_lab(values) ==
  IF Len(values) < 3 THEN [err |-> "too_few_values", vals |-> <<>>]
  ELSE [err |-> "none", vals |-> [i \in 1..3 |-> Frac(values[i], 100)]]

\* The keys of decode_methods.
decode_methods == {"RGB", "HSB", "CMYK", "LAB"}

\* interpret_colors with a GRAYSCALE decoder added to decode_methods.
interpret_colors_grayscale(cs, values) ==
  IF Len(values) < 3 THEN [err |-> "too_few_values", vals |-> <<>>]
  ELSE IF cs \notin decode_methods \cup {"GRAYSCALE"}
  THEN [err |-> "uninterpretable_color_space", vals |-> <<>>]
  ELSE CASE cs = "RGB" -> decode_rgb(values)
         [] cs = "HSB" -> decode_hsb(values)
         [] cs = "CMYK" -> decode_cmyk(values)
         [] cs = "LAB" -> decode_lab(values)
         [] cs = "GRAYSCALE" ->
              [err |-> "none", vals |-> <<Frac(100 * values[1], 65535)>>]

interpret_colors(cs, values) ==
  IF Len(values) < 3 THEN [err |-> "too_few_values", vals |-> <<>>]
  ELSE IF cs \notin decode_methods
  THEN [err |-> "uninterpretable_color_space", vals |-> <<>>]
  ELSE CASE cs = "RGB" -> decode_rgb(values)
         [] cs = "HSB" -> decode_hsb(values)
         [] cs = "CMYK" -> decode_cmyk(values)
         [] cs = "LAB" -> decode_lab(values)

\* What read_color_values returns or raises. Besides the exception (err),
\* the returned ColorSwatch (swatch, meaningful when err = "none") and the
\* new offset (pos), the record keeps the last call reached (stage) and
\* what was read (info): the start offset, the raw code, the colour space,
\* the four channel words, the bytes available for the name length, n_len,
\* s_name, and whether some read came up short.
Result(err, swatch, stage, pos_, info) ==
  [err |-> err, swatch |-> swatch, pos |-> pos_, stage |-> stage,
   info |-> info]

\* Lines 216-224 of read_color_values: interpret, then construct.
convert(cs, c_vals, rs, info) ==
  Let(interpret_colors(cs, c_vals), LAMBDA values :
    IF values.err # "none"
    THEN Result(values.err, ColorSwatch_new, "interpret_colors", rs.pos, info)
    ELSE Let(ColorSwatch_init(rs.value, cs, values.vals), LAMBDA sw :
      IF sw.err # "none"
      THEN Result(sw.err, ColorSwatch_new, "ColorSwatch", rs.pos, info)
      ELSE Result("none", sw.self, "return", rs.pos, info)))

\* Every channel word read as unsigned, whatever the colour space.
read_channel_unsigned(cs, b, p, bo, g) == read_uint16(b, p, bo, g)

\* A channel word after the first: signed for LAB (line 205).
read_channel(cs, b, p, bo, g) ==
  IF ColorSpace_value(cs) = 7 THEN read_int16(b, p, bo, g)
  ELSE read_uint16(b, p, bo, g)

\* read_color_values on file b at offset p.
read_color_values(b, p, bo, g) ==
  Let(read_uint16(b, p, bo, g), LAMBDA r_cs :
  Let(from_value(r_cs.value), LAMBDA cs :
  Let(read_uint16(b, r_cs.pos, bo, g), LAMBDA r0 :
  Let(read_channel(cs, b, r0.pos, bo, g), LAMBDA r1 :
  Let(read_channel(cs, b, r1.pos, bo, g), LAMBDA r2 :
  Let(read_channel(cs, b, r2.pos, bo, g), LAMBDA r3 :
  Let(read_uint32(b, r3.pos, bo, g), LAMBDA rl :
  Let(read_string(b, rl.pos, rl.value, bo), LAMBDA rs :
  Let([start |-> p, code |-> r_cs.value, space |-> cs,
       c_vals |-> <<r0.value, r1.value, r2.value, r3.value>>,
       len_bytes |-> file_read(b, r3.pos, 4),
       n_len |-> rl.value, s_name |-> rs.value,
       short |-> r_cs.short \/ r0.short \/ r1.short \/ r2.short
                 \/ r3.short \/ rl.short \/ rs.short], LAMBDA info :
    IF rs.err # "none"
    THEN Result(rs.err, ColorSwatch_new, "read_string", rs.pos, info)
    ELSE convert(cs, info.c_vals, rs, info))))))))))

\* ----------------------------------------------------- util.py: encoders
\* to_uint16, to_uint32, to_char_bytes: the big-endian bytes of a value.
to_uint16(val) == <<(val \div 256) % 256, val % 256>>

to_uint32(val) ==
  <<(val \div 16777216) % 256, (val \div 65536) % 256,
    (val \div 256) % 256, val % 256>>

RECURSIVE to_char_bytes(_)
to_char_bytes(_s) ==
  IF _s = <<>> THEN <<>> ELSE to_uint16(Head(_s)) \o to_char_bytes(Tail(_s))

\* ------------------------------------------------------------ input files
\* The bytes of one swatch entry: code, four channel words, declared name
\* length, and the name units the file really holds.
Entry(code, w, n_len, units) ==
  to_uint16(code) \o to_uint16(w[1]) \o to_uint16(w[2]) \o to_uint16(w[3])
  \o to_uint16(w[4]) \o to_uint32(n_len) \o to_char_bytes(units)

\* RGB (255, 0, 1) named "A".
EntryRgb == Entry(0, <<65280, 0, 256, 0>>, 1, <<65>>)

\* RGB whose first word is one above the range.
EntryRgbOver == Entry(0, <<65281, 0, 0, 0>>, 0, <<>>)

\* LAB (100, -0.01, -128) named "L".
EntryLab == Entry(7, <<10000, 65535, 52736, 0>>, 1, <<76>>)

\* GRAYSCALE, unnamed.
EntryGray == Entry(8, <<100, 0, 0, 0>>, 0, <<>>)

\* CMYK whose declared name length is 65537, the file holding one unit.
EntryLongName == Entry(2, <<0, 0, 0, 65535>>, 65537, <<66>>)

\* HSB whose name is a lone surrogate.
EntrySurrogate == Entry(1, <<18204, 0, 0, 0>>, 1, <<55296>>)

Templates ==
  {EntryRgb, EntryRgbOver, EntryLab, EntryGray, EntryLongName, EntrySurrogate}

EntryLists == UNION {[1..k -> Templates] : k \in 0..MaxEntries}

RECURSIVE Flatten(_)
Flatten(ss) == IF ss = <<>> THEN <<>> ELSE Head(ss) \o Flatten(Tail(ss))

Versions == {1, 2}

\* A file: version, declared count, entries, with the last cut bytes gone.
FileBytes(v, n, es, cut) ==
  LET f == to_uint16(v) \o to_uint16(n) \o Flatten(es)
  IN SubSeq(f, 1, IF Len(f) > cut THEN Len(f) - cut ELSE 0)

Files ==
  {FileBytes(v, n, es, cut) :
     v \in Versions, n \in 0..MaxCount, es \in EntryLists, cut \in 0..MaxCut}

\* Values of the byte behind the terminator of the empty bytes object.
GarbageBytes == {0, 255}

\* ---------------------------------------------------------------- state
VARIABLES
  byteorder,    \* sys.byteorder
  garbage,      \* the byte behind the terminator of b''
  buf,          \* the content of the file: bytes, or lines of text
  xargs,        \* the dict passed to read_file
  pc,           \* where read_file is
  pos,          \* the read position of _f
  verbose,      \* local of read_file
  fail_quiet,   \* local of read_file
  version,      \* local of read_file, -1 before it is read
  color_count,  \* local of read_file, -1 before it is read
  idx,          \* iterations of the swatch loop completed
  fail_count,   \* local of read_file, -1 while unbound
  out,          \* the blocks appended to the output file by this call
  stdout,       \* what was printed
  exc,          \* the exception that left read_file, "none" if none did
  trace,        \* one record per call of read_color_values
  shorts,       \* calls that returned although a read came up short
  arg,          \* argument of a function applied on its own
  ret,          \* its result
  obj,          \* the ColorSwatch object a caller holds
  op            \* the last operation applied to obj

vars ==
  <<byteorder, garbage, buf, xargs, pc, pos, verbose, fail_quiet, version,
    color_count, idx, fail_count, out, stdout, exc, trace, shorts, arg, ret,
    obj, op>>

Xargs ==
  [input_directory_sep : BOOLEAN, verbose : BOOLEAN, fail_quiet : BOOLEAN]

\* What op keeps of an operation on a ColorSwatch: the call, its
\* arguments, the exception it raised, the object before it and the text
\* it returned.
Op(kind, name, cs, values, err, before, text) ==
  [kind |-> kind, name |-> name, cs |-> cs, values |-> values, err |-> err,
   before |-> before, text |-> text]

NoOp == Op("none", <<>>, "UNSET", <<>>, "none", ColorSwatch_new, <<>>)

\* No ColorSwatch held by a caller.
NoSwatch == obj = ColorSwatch_new /\ op = NoOp

\* The locals of read_file before its first statement runs.
Locals ==
  /\ pos = 0
  /\ verbose = FALSE
  /\ fail_quiet = FALSE
  /\ version = -1
  /\ color_count = -1
  /\ idx = 0
  /\ fail_count = -1
  /\ out = <<>>
  /\ stdout = <<>>
  /\ exc = "none"
  /\ trace = <<>>
  /\ shorts = 0

Init ==
  /\ byteorder \in {"little", "big"}
  /\ garbage \in GarbageBytes
  /\ buf \in Files
  /\ xargs \in Xargs
  /\ pc = "call"
  /\ Locals
  /\ arg = 0
  /\ ret = "none"
  /\ NoSwatch

\* ---------------------------------------------------- reader.py: read_file
\* Lines 242-250: the locals verbose and fail_quiet after the arguments are
\* processed. They are read from xargs only in the else branch.
process_args(x) ==
  IF x.input_directory_sep
  THEN [verbose |-> FALSE, fail_quiet |-> FALSE]
  ELSE [verbose |-> x.verbose, fail_quiet |-> x.fail_quiet]

\* The version test accepting every version up to 2.
version_mismatch_newer_only(v) == v > 2

\* Line 255.
version_mismatch(v) == v # 2

\* The handler without its else branch: every ValueError is skipped.
except_ValueError_always_continue(fq) == "continue"

\* Lines 275-280: what the handler of the swatch loop does.
except_ValueError(fq) == IF fq THEN "continue" ELSE "raise"

\* The block written at the front of the output file.
write_at_front(o, block) == <<block>> \o o

\* Lines 281-286: the block is appended to the output file.
write(o, block) == Append(o, block)

Msg(text, n) == [text |-> text, n |-> n]

\* print under `if (verbose)`.
vprint(v, o, m) == IF v THEN Append(o, m) ELSE o

\* Lines 241-252.
ProcessArgs ==
  /\ pc = "call"
  /\ verbose' = process_args(xargs).verbose
  /\ fail_quiet' = process_args(xargs).fail_quiet
  /\ pc' = "version"
  /\ UNCHANGED <<byteorder, garbage, buf, xargs, pos, version, color_count,
                 idx, fail_count, out, stdout, exc, trace, shorts, arg, ret,
                 obj, op>>

\* Lines 253-264.
CheckVersion ==
  /\ pc = "version"
  /\ \E r \in {read_uint16(buf, pos, byteorder, garbage)} :
        /\ version' = r.value
        /\ pos' = r.pos
        /\ shorts' = shorts + (IF r.short THEN 1 ELSE 0)
        /\ IF version_mismatch(r.value)
           THEN IF fail_quiet
                THEN pc' = "returned" /\ exc' = exc
                ELSE pc' = "raised" /\ exc' = "unsupported_version"
           ELSE pc' = "count" /\ exc' = exc
  /\ UNCHANGED <<byteorder, garbage, buf, xargs, verbose, fail_quiet,
                 color_count, idx, fail_count, out, stdout, trace, arg, ret,
                 obj, op>>

\* Lines 265-271.
ReadCount ==
  /\ pc = "count"
  /\ \E r \in {read_uint16(buf, pos, byteorder, garbage)} :
        /\ color_count' = r.value
        /\ pos' = r.pos
        /\ shorts' = shorts + (IF r.short THEN 1 ELSE 0)
        /\ stdout' = vprint(verbose, stdout, Msg("Reading", r.value))
  /\ fail_count' = IF fail_quiet THEN 0 ELSE fail_count
  /\ pc' = "loop"
  /\ UNCHANGED <<byteorder, garbage, buf, xargs, verbose, fail_quiet, version,
                 idx, out, exc, trace, arg, ret,
                 obj, op>>

\* What trace keeps of a call of read_color_values: its result and what
\* the loop did with it ("written", "counted" or "raised").
TraceEntry(r, handled) ==
  [err |-> r.err, swatch |-> r.swatch, pos |-> r.pos, stage |-> r.stage,
   info |-> r.info, handled |-> handled]

\* The swatch loop runs at most LoopCap times in the model; a count read
\* from a truncated header can be as large as 65535.
LoopCap == MaxCount + 1

\* Lines 272-286: one iteration of the swatch loop.
LoopIter ==
  /\ pc = "loop"
  /\ idx < color_count
  /\ idx < LoopCap
  /\ \E r \in {read_color_values(buf, pos, byteorder, garbage)} :
     LET caught == r.err \in ValueErrors
                   /\ except_ValueError(fail_quiet) = "continue"
         handled == IF r.err = "none" THEN "written"
                    ELSE IF caught THEN "counted" ELSE "raised"
     IN /\ pos' = r.pos
        /\ shorts' = shorts + (IF r.info.short THEN 1 ELSE 0)
        /\ trace' = Append(trace, TraceEntry(r, handled))
        /\ out' = IF handled = "written"
                  THEN write(out, ColorSwatch_str(r.swatch)) ELSE out
        /\ fail_count' = IF handled = "counted" THEN fail_count + 1
                         ELSE fail_count
        /\ idx' = IF handled = "raised" THEN idx ELSE idx + 1
        /\ pc' = IF handled = "raised" THEN "raised" ELSE pc
        /\ exc' = IF handled = "raised" THEN r.err ELSE exc
  /\ UNCHANGED <<byteorder, garbage, buf, xargs, verbose, fail_quiet, version,
                 color_count, stdout, arg, ret,
                 obj, op>>

\* Lines 287-290, after the loop has run color_count times.
Finish ==
  /\ pc = "loop"
  /\ idx = color_count
  /\ stdout' =
       LET o == vprint(verbose, stdout, Msg("Finished", 0))
       IN vprint(verbose /\ fail_quiet, o, Msg("Failed", fail_count))
  /\ pc' = "returned"
  /\ UNCHANGED <<byteorder, garbage, buf, xargs, pos, verbose, fail_quiet,
                 version, color_count, idx, fail_count, out, exc, trace,
                 shorts, arg, ret,
                 obj, op>>

Next == ProcessArgs \/ CheckVersion \/ ReadCount \/ LoopIter \/ Finish

Spec == Init /\ [][Next]_vars

\* ------------------------------------------- read_color_values on its own
MaxCode == 12

\* Raw colour-space codes: every small one, and two large ones.
Codes == (0..MaxCode) \cup {255, 65535}

WordSamples ==
  {<<0, 0, 0, 0>>, <<65280, 65535, 32768, 1>>, <<10000, 52736, 12700, 65535>>,
   <<65281, 0, 0, 0>>}

\* Declared name length and the units present.
NameSamples == {<<0, <<>>>>, <<1, <<65>>>>, <<2, <<66, 0>>>>, <<2, <<67>>>>}

EntryFiles ==
  {Entry(c, w, n[1], n[2]) : c \in Codes, w \in WordSamples, n \in NameSamples}

InitEntry ==
  /\ byteorder \in {"little", "big"}
  /\ garbage \in GarbageBytes
  /\ buf \in EntryFiles
  /\ xargs = [input_directory_sep |-> FALSE, verbose |-> FALSE,
              fail_quiet |-> FALSE]
  /\ pc = "entry"
  /\ Locals
  /\ arg = 0
  /\ ret = "none"
  /\ NoSwatch

\* One call of read_color_values at the start of buf.
ReadEntry ==
  /\ pc = "entry"
  /\ \E r \in {read_color_values(buf, pos, byteorder, garbage)} :
        /\ pos' = r.pos
        /\ shorts' = shorts + (IF r.info.short THEN 1 ELSE 0)
        /\ trace' = Append(trace, TraceEntry(r, "none"))
        /\ exc' = r.err
  /\ pc' = "entry_done"
  /\ UNCHANGED <<byteorder, garbage, buf, xargs, verbose, fail_quiet, version,
                 color_count, idx, fail_count, out, stdout, arg, ret,
                 obj, op>>

NextEntry == ReadEntry

SpecEntry == InitEntry /\ [][NextEntry]_vars

\* ------------------------------------- the range gate of read_color_values
\* Channel words at and next to the limits of the four decodable spaces.
GateWord0 == {0, 10000, 10001, 18204, 18205, 65280, 65281, 65535}

GateWord12 == {0, 12700, 12701, 32768, 52735, 52736, 65280, 65281, 65535}

GateWord3 == {0, 65535}

\* A name that decodes and one that does not (a lone surrogate).
GateNames == {<<65>>, <<55296>>}

GateFiles ==
  {Entry(c, <<w0, w1, w2, w3>>, 1, n) :
     c \in {0, 1, 2, 7}, w0 \in GateWord0, w1 \in GateWord12,
     w2 \in GateWord12, w3 \in GateWord3, n \in GateNames}

InitGate ==
  /\ byteorder \in {"little", "big"}
  /\ garbage \in GarbageBytes
  /\ buf \in GateFiles
  /\ xargs = [input_directory_sep |-> FALSE, verbose |-> FALSE,
              fail_quiet |-> FALSE]
  /\ pc = "entry"
  /\ Locals
  /\ arg = 0
  /\ ret = "none"
  /\ NoSwatch

SpecGate == InitGate /\ [][NextEntry]_vars

\* ------------------------------------------ ColorSpace.from_value on its own
MaxArg == 260

InitFromValue ==
  /\ byteorder = "little"
  /\ garbage = 0
  /\ buf = <<>>
  /\ xargs = [input_directory_sep |-> FALSE, verbose |-> FALSE,
              fail_quiet |-> FALSE]
  /\ pc = "from_value"
  /\ Locals
  /\ arg \in (0 - MaxArg)..MaxArg
  /\ ret = "none"
  /\ NoSwatch

ApplyFromValue ==
  /\ pc = "from_value"
  /\ ret' = from_value(arg)
  /\ pc' = "from_value_done"
  /\ UNCHANGED <<byteorder, garbage, buf, xargs, pos, verbose, fail_quiet,
                 version, color_count, idx, fail_count, out, stdout, exc,
                 trace, shorts, arg, obj, op>>

NextFromValue == ApplyFromValue

SpecFromValue == InitFromValue /\ [][NextFromValue]_vars

\* ------------------------------------------------ ColorSwatch on its own
MaxLen == 5

\* Lists of zeros of every length up to MaxLen.
ZeroLists == {[i \in 1..k |-> Frac(0, 1)] : k \in 0..MaxLen}

\* Lists of values a caller passes: of every length, within the limits of
\* some spaces only, below and above every limit, and holding a nan.
ValueLists ==
  ZeroLists \cup
  {<<Frac(100, 1)>>,
   <<Frac(0, 1), Frac(101, 1)>>,
   <<Frac(255, 1), Frac(1, 8), Frac(100, 1)>>,
   <<Frac(100, 1), Frac(-128, 1), Frac(127, 1)>>,
   <<Frac(256, 1), Frac(0, 1), Frac(0, 1)>>,
   <<Frac(0, 1), Frac(0, 1), Frac(-1, 1)>>,
   <<nan, Frac(0, 1), Frac(0, 1)>>,
   <<Frac(100, 1), Frac(1, 8), Frac(5, 8), Frac(100, 1)>>,
   <<Frac(256, 1), Frac(0, 1), Frac(0, 1), Frac(0, 1)>>,
   <<Frac(1, 0), Frac(0, 1), Frac(0, 1)>>}

SwatchNames == {<<>>, <<65>>}

InitSwatch ==
  /\ byteorder = "little"
  /\ garbage = 0
  /\ buf = <<>>
  /\ xargs = [input_directory_sep |-> FALSE, verbose |-> FALSE,
              fail_quiet |-> FALSE]
  /\ pc = "new"
  /\ Locals
  /\ arg = 0
  /\ ret = "none"
  /\ NoSwatch

readerVars ==
  <<byteorder, garbage, buf, xargs, pos, verbose, fail_quiet, version,
    color_count, idx, fail_count, out, stdout, exc, trace, shorts, arg, ret>>

\* obj = ColorSwatch(name, cs, values); when __init__ raises, no object is
\* bound.
Construct ==
  /\ pc = "new"
  /\ \E name \in SwatchNames, cs \in ColorSpace, values \in ValueLists :
       \E r \in {ColorSwatch_init(name, cs, values)} :
          /\ obj' = IF r.err = "none" THEN r.self ELSE obj
          /\ op' = Op("ColorSwatch", name, cs, values, r.err, obj, <<>>)
          /\ pc' = IF r.err = "none" THEN "object" ELSE "no_object"
  /\ UNCHANGED readerVars

\* obj.color_space = cs
AssignColorSpace ==
  /\ pc = "object"
  /\ \E cs \in ColorSpace :
       \E r \in {set_color_space(obj, cs)} :
          /\ obj' = r.self
          /\ op' = Op("color_space", <<>>, cs, <<>>, r.err, obj, <<>>)
  /\ UNCHANGED <<pc, readerVars>>

\* obj.color_values = values
AssignColorValues ==
  /\ pc = "object"
  /\ \E values \in ValueLists :
       \E r \in {set_color_values(obj, values)} :
          /\ obj' = r.self
          /\ op' = Op("color_values", <<>>, "UNSET", values, r.err, obj, <<>>)
  /\ UNCHANGED <<pc, readerVars>>

\* obj.name = name: name is a plain attribute.
AssignName ==
  /\ pc = "object"
  /\ \E name \in SwatchNames :
       /\ obj' = [obj EXCEPT !.name = name]
       /\ op' = Op("name", name, "UNSET", <<>>, "none", obj, <<>>)
  /\ UNCHANGED <<pc, readerVars>>

\* str(obj)
Str ==
  /\ pc = "object"
  /\ op' = Op("__str__", <<>>, "UNSET", <<>>, "none", obj,
              ColorSwatch_str(obj))
  /\ UNCHANGED <<pc, obj, readerVars>>

NextSwatch ==
  Construct \/ AssignColorSpace \/ AssignColorValues \/ AssignName \/ Str

SpecSwatch == InitSwatch /\ [][NextSwatch]_vars

\* ------------------------------------------- swatch.py: read_next_swatch
MaxSkip == 2

\* A text file: up to MaxSkip empty lines, then the block of a swatch.
BlankLines == {[i \in 1..k |-> Line("", "", <<>>)] : k \in 0..MaxSkip}

\* The swatches of a decodable colour space that can be constructed.
DecodableSwatches ==
  {r.self : r \in {x \in {ColorSwatch_init(name, cs, values) :
                            name \in SwatchNames, cs \in decode_methods,
                            values \in ValueLists} : x.err = "none"}}

InitText ==
  /\ byteorder = "little"
  /\ garbage = 0
  /\ obj \in DecodableSwatches
  /\ op = NoOp
  /\ \E skip \in BlankLines : buf = skip \o ColorSwatch_str(obj)
  /\ xargs = [input_directory_sep |-> FALSE, verbose |-> FALSE,
              fail_quiet |-> FALSE]
  /\ pc = "scan"
  /\ Locals
  /\ arg = 0
  /\ ret = "none"

\* file.readline() at line offset p: the next line, '' at the end of file.
readline(b, p) == IF p < Len(b) THEN b[p + 1] ELSE Line("", "", <<>>)

\* 'ColorSwatch' in _line: of the lines __str__ writes, the first one (the
\* names of the model do not spell the word).
has_ColorSwatch(line) == line.text = "ColorSwatch {"

\* ColorSpace.from_name(_color_space): the enum has no attribute from_name,
\* so evaluating the expression raises.
ColorSpace_from_name(_color_space) == "AttributeError"

\* Lines 27-29: a line read while looking for the start of a swatch. At
\* the end of the file readline returns '' and the position stays: the
\* iteration leaves the state as it found it, and the loop goes on.
ScanLine ==
  /\ pc = "scan"
  /\ pos' = Min(pos + 1, Len(buf))
  /\ pc' = IF has_ColorSwatch(readline(buf, pos)) THEN "header" ELSE "scan"
  /\ UNCHANGED <<byteorder, garbage, buf, xargs, verbose, fail_quiet, version,
                 color_count, idx, fail_count, out, stdout, exc, trace,
                 shorts, arg, ret, obj, op>>

\* Lines 33-40: the name line and the color_space line are read, then
\* line 40 raises; lines 41-69 are never reached.
ReadHeader ==
  /\ pc = "header"
  /\ pos' = Min(pos + 2, Len(buf))
  /\ exc' = ColorSpace_from_name(readline(buf, pos + 1))
  /\ pc' = "raised"
  /\ UNCHANGED <<byteorder, garbage, buf, xargs, verbose, fail_quiet, version,
                 color_count, idx, fail_count, out, stdout, trace, shorts,
                 arg, ret, obj, op>>

NextText == ScanLine \/ ReadHeader

SpecText == InitText /\ [][NextText]_vars

\* read_next_swatch on any file of the model, with or without a block, read
\* from its start or from its end (where a call after the last block
\* starts).
InitTextAny ==
  /\ byteorder = "little"
  /\ garbage = 0
  /\ op = NoOp
  /\ \E skip \in BlankLines :
        \/ obj \in DecodableSwatches /\ buf = skip \o ColorSwatch_str(obj)
        \/ obj = ColorSwatch_new /\ buf = skip
  /\ pos \in {0, Len(buf)}
  /\ xargs = [input_directory_sep |-> FALSE, verbose |-> FALSE,
              fail_quiet |-> FALSE]
  /\ pc = "scan"
  /\ verbose = FALSE
  /\ fail_quiet = FALSE
  /\ version = -1
  /\ color_count = -1
  /\ idx = 0
  /\ fail_count = -1
  /\ out = <<>>
  /\ stdout = <<>>
  /\ exc = "none"
  /\ trace = <<>>
  /\ shorts = 0
  /\ arg = 0
  /\ ret = "none"

\* The interpreter always runs the next statement: a step of
\* read_next_swatch that changes the state is taken when there is one.
SpecTextLive == InitTextAny /\ [][NextText]_vars /\ WF_vars(NextText)

\* ================================================================ claims
\* The entries of a trace that produced a record.
OkEntries(t) == SelectSeq(t, LAMBDA e : e.err = "none")

\* The number of entries of a trace that failed.
NumFailed(t) == Cardinality({i \in 1..Len(t) : t[i].err # "none"})

Terminated == pc \in {"returned", "raised"}

\* C1: on a file whose reads all get their bytes, when xargs['fail_quiet']
\* is true, whatever xargs['input_directory'] ends with, every failure
\* raised by read_color_values is counted and the loop goes on; when
\* read_file returns for a version-2 file, the failures are the value of
\* fail_count and, added to the blocks written, give the declared count.
C1_LenientCountsAndContinues ==
  (xargs.fail_quiet /\ shorts = 0) =>
    /\ \A i \in 1..Len(trace) :
         trace[i].err # "none" => trace[i].handled = "counted"
    /\ (pc = "returned" /\ version = 2) =>
         /\ Len(out) + NumFailed(trace) = color_count
         /\ NumFailed(trace) > 0 => fail_count = NumFailed(trace)

\* C2: with fail_quiet false, a failure of read_color_values at an entry is
\* the last thing read_file does: the error leaves read_file, the read
\* position stays where that call left it, no later entry is read, and the
\* output holds exactly the blocks of the entries before it, which all
\* decoded.
C2_StrictAbortsAtFirstFailure ==
  (pc # "call" /\ ~fail_quiet) =>
    \A k \in 1..Len(trace) :
      trace[k].err # "none" =>
        /\ k = Len(trace)
        /\ pc = "raised"
        /\ exc = trace[k].err
        /\ pos = trace[k].pos
        /\ out = [i \in 1..(k - 1) |-> ColorSwatch_str(trace[i].swatch)]

\* A strict run that wrote one block and then failed at the second entry.
C2_Witness ==
  /\ pc = "raised"
  /\ ~xargs.fail_quiet
  /\ Len(trace) = 2
  /\ Len(out) = 1
  /\ exc = "out_of_range"

\* C3: once a version other than 2 has been read, read_file has ended: the
\* count and the entries were never read, nothing was written, no failure
\* was counted by the swatch loop, and with fail_quiet false the
\* unsupported-version error has left read_file.
C3_UnsupportedVersionRejectsFile ==
  (version # -1 /\ version # 2) =>
    /\ Terminated
    /\ color_count = -1
    /\ trace = <<>>
    /\ out = <<>>
    /\ pos <= 2
    /\ fail_count = -1
    /\ (~xargs.fail_quiet \/ ~fail_quiet) =>
         (pc = "raised" /\ exc = "unsupported_version")

\* A strict run on a version-1 file that holds entries.
C3_Witness ==
  /\ pc = "raised"
  /\ exc = "unsupported_version"
  /\ version = 1
  /\ ~xargs.fail_quiet
  /\ Len(buf) > 4

\* C4: when read_file returns normally, every failure that occurred was
\* counted and reported: the version was supported, no read came up short,
\* and if entries failed their number was printed.
C4_NoErrorSilentlyDropped ==
  pc = "returned" =>
    /\ version = 2
    /\ shorts = 0
    /\ NumFailed(trace) > 0 =>
         Msg("Failed", NumFailed(trace)) \in Range(stdout)

\* C5: at every moment the output is the sequence of the blocks of the
\* entries decoded so far, one block per decoded entry, in the order the
\* entries were read, and nothing for a failed entry.
C5_OutputIsOkBlocksInOrder ==
  LET ok == OkEntries(trace)
  IN out = [i \in 1..Len(ok) |-> ColorSwatch_str(ok[i].swatch)]

\* A run that wrote two different blocks.
C5_Witness ==
  /\ pc = "returned"
  /\ Len(out) = 2
  /\ out[1] # out[2]
  /\ trace[1].info.start < trace[2].info.start

\* C6: for a version-2 file whose reads all get their bytes, when
\* read_file has ended and either xargs['fail_quiet'] is true or no entry
\* failed, it returned after exactly color_count calls of
\* read_color_values; with a count of 0 it returned without reading an
\* entry, writing a block or raising.
C6_LoopRunsExactlyNTimes ==
  (version = 2 /\ Terminated /\ shorts = 0) =>
    /\ (xargs.fail_quiet \/ NumFailed(trace) = 0) =>
         (pc = "returned" /\ Len(trace) = color_count)
    /\ color_count = 0 =>
         (pc = "returned" /\ trace = <<>> /\ out = <<>> /\ exc = "none")

\* The reads of the version and of the count that came up short.
HeaderShorts ==
  shorts - Cardinality({i \in 1..Len(trace) : trace[i].info.short})

\* C7: a read that finds fewer bytes than its width raises: a short read of
\* the version or of the count ends read_file with an exception, and a call
\* of read_color_values in which a read came up short fails.
C7_TruncationIsRaised ==
  /\ HeaderShorts > 0 => pc = "raised"
  /\ \A i \in 1..Len(trace) : trace[i].info.short => trace[i].err # "none"

\* The 32-bit big-endian value of four bytes.
StoredU32(bs) == U32(256 * bs[1] + bs[2], 256 * bs[3] + bs[4])

\* C8: the name length n_len that read_color_values got from read_uint32
\* is the 32-bit big-endian value of the four bytes stored in the file.
C8_NameLengthIsFull32Bits ==
  \A i \in 1..Len(trace) :
    Len(trace[i].info.len_bytes) = 4 =>
      trace[i].info.n_len = StoredU32(trace[i].info.len_bytes)

\* C9: a call of read_color_values on an entry whose code is not 0, 1, 2 or
\* 7 fails, in interpret_colors with the unsupported-colour-space error
\* unless read_string failed first, and before ColorSwatch is called; any
\* record returned has a colour space among RGB, HSB, CMYK, LAB.
C9_OnlyDecodableSpacesConstructed ==
  \A i \in 1..Len(trace) :
    LET e == trace[i]
    IN /\ e.info.code \notin {0, 1, 2, 7} =>
            /\ e.err # "none"
            /\ e.stage \in {"read_string", "interpret_colors"}
            /\ e.stage = "interpret_colors" =>
                 e.err = "uninterpretable_color_space"
       /\ e.stage \in {"ColorSwatch", "return"} =>
            e.info.space \in {"RGB", "HSB", "CMYK", "LAB"}
       /\ e.err = "none" =>
            /\ e.swatch._color_space \in {"RGB", "HSB", "CMYK", "LAB"}
            /\ e.swatch._color_space = e.info.space

\* A GRAYSCALE entry refused by interpret_colors.
C9_Witness ==
  /\ pc = "entry_done"
  /\ trace[1].info.code = 8
  /\ trace[1].info.space = "GRAYSCALE"
  /\ trace[1].stage = "interpret_colors"
  /\ exc = "uninterpretable_color_space"

KnownCodes == {0, 1, 2, 3, 4, 5, 6, 7, 8, 10}

\* C10: from_value returns a member of ColorSpace for every integer: the
\* variant whose value is the code for the ten known codes, UNSET for any
\* other integer.
C10_FromValueTotal ==
  pc = "from_value_done" =>
    /\ ret \in ColorSpace
    /\ arg \in KnownCodes => ColorSpace_value(ret) = arg
    /\ arg \notin KnownCodes => ret = "UNSET"

\* from_value applied to the unknown code 9.
C10_Witness == pc = "from_value_done" /\ arg = 9 /\ ret = "UNSET"

\* The colour spaces validate_color_space refuses.
Unhandled == {"UNSET", "PANTONE", "FOCOLTONE", "TRUMATCH", "TOYO88", "HKS"}

\* A float v is a number within the inclusive limits lim.
InLimit(v, lim) ==
  /\ v.den > 0
  /\ lim._min * v.den <= v.num
  /\ v.num <= lim._max * v.den

\* The record invariant of a ColorSwatch o.
ValidRecord(o) ==
  /\ color_space(o) \notin Unhandled
  /\ color_space(o) \in TableSpaces
  /\ LET labels == COLOR_SPACE_LABELS(color_space(o))
         limits == COLOR_SPACE_LIMITS(color_space(o))
     IN /\ Len(o._color_values) = Len(labels)
        /\ \A i \in 1..Len(labels) :
             /\ o._color_values[i].label = labels[i]
             /\ InLimit(o._color_values[i].value, limits[i])

\* C11: a ColorSwatch that was constructed, after any assignments to its
\* name, color_space and color_values, has a colour space that is neither
\* UNSET nor unhandled, has exactly the labels of its colour space as keys,
\* in order, and has every value within the limits of its position.
C11_RecordInvariant == pc = "object" => ValidRecord(obj)

\* C12: ColorSwatch(name, cs, values) with cs in the tables and a number of
\* values other than the number of labels of cs binds no object and raises
\* a ValueError.
C12_ArityMismatchIsValueError ==
  (/\ op.kind = "ColorSwatch"
   /\ op.cs \in TableSpaces
   /\ Len(op.values) # Len(COLOR_SPACE_LABELS(op.cs))) =>
    (pc = "no_object" /\ op.err \in ValueErrors)

\* C13: an assignment to color_space of an object whose colour space is
\* not UNSET raises a ValueError, whatever the variant assigned, and leaves
\* the object as it was.
C13_ColorSpaceSetOnce ==
  (op.kind = "color_space" /\ color_space(op.before) # "UNSET") =>
    /\ op.err \in ValueErrors
    /\ obj = op.before
    /\ color_space(obj) = color_space(op.before)

\* HSB, which validate_color_space accepts, assigned to an RGB swatch.
C13_Witness ==
  /\ op.kind = "color_space"
  /\ op.cs = "HSB"
  /\ op.err = "already_set"
  /\ color_space(obj) = "RGB"

\* C14: no operation on a constructed ColorSwatch (an assignment to name,
\* color_space or color_values, or __str__) changes its name, its colour
\* space or its values.
C14_ImmutableAfterConstruction ==
  (pc = "object"
   /\ op.kind \in {"name", "color_space", "color_values", "__str__"}) =>
    /\ obj.name = op.before.name
    /\ color_space(obj) = color_space(op.before)
    /\ obj._color_values = op.before._color_values

\* The k-th 16-bit big-endian word stored in b, counted from 0.
Word(b, k) == 256 * b[2 * k + 1] + b[2 * k + 2]

\* A stored word as a two's-complement value.
Signed(w) == IF w >= 32768 THEN w - 65536 ELSE w

\* The channel words of the RGB, HSB or CMYK entry b are all within range.
UnsignedGate(b) ==
  CASE Word(b, 0) = 0 ->
         Word(b, 1) <= 65280 /\ Word(b, 2) <= 65280 /\ Word(b, 3) <= 65280
    [] Word(b, 0) = 1 -> Word(b, 1) <= 18204
    [] Word(b, 0) = 2 -> TRUE

\* read_color_values returned a record iff gate, and failed in the
\* construction with the out-of-range error otherwise.
GatedBy(e, gate) ==
  /\ e.err = "none" <=> gate
  /\ ~gate => (e.err = "out_of_range" /\ e.stage = "ColorSwatch")

\* C15 (as stated): an RGB entry yields a record iff its first three words
\* are at most 65280, an HSB entry iff its hue word is at most 18204, a CMYK
\* entry always; every other such entry fails with the out-of-range error.
C15_UnsignedRangeGateAnyName ==
  (pc = "entry_done" /\ Word(buf, 0) \in {0, 1, 2}) =>
    GatedBy(trace[1], UnsignedGate(buf))

\* C15 (amended): for an entry whose name was read without error, an RGB
\* entry yields a record iff its first three words are at most 65280, an
\* HSB entry iff its hue word is at most 18204, a CMYK entry always; every
\* other such entry fails in the construction with the out-of-range error.
C15_UnsignedRangeGate ==
  (/\ pc = "entry_done"
   /\ Word(buf, 0) \in {0, 1, 2}
   /\ trace[1].stage # "read_string") =>
    GatedBy(trace[1], UnsignedGate(buf))

\* An RGB entry refused for its third word alone, 65281.
C15_Witness ==
  /\ pc = "entry_done"
  /\ Word(buf, 0) = 0
  /\ Word(buf, 1) = 65280
  /\ Word(buf, 2) = 65280
  /\ Word(buf, 3) = 65281
  /\ trace[1].stage = "ColorSwatch"
  /\ exc = "out_of_range"

\* The channel words of the LAB entry b are all within range.
LabGate(b) ==
  /\ Word(b, 1) <= 10000
  /\ Signed(Word(b, 2)) >= 0 - 12800 /\ Signed(Word(b, 2)) <= 12700
  /\ Signed(Word(b, 3)) >= 0 - 12800 /\ Signed(Word(b, 3)) <= 12700

\* C16 (as stated): a LAB entry yields a record iff word 0 is at most 10000
\* and words 1 and 2, as signed values, lie in -12800..12700; every other
\* LAB entry fails with the out-of-range error.
C16_LabSignedRangeGateAnyName ==
  (pc = "entry_done" /\ Word(buf, 0) = 7) => GatedBy(trace[1], LabGate(buf))

\* C16 (amended): for an entry whose name was read without error, a LAB
\* entry yields a record iff word 0 is at most 10000 and words 1 and 2, as
\* signed values, lie in -12800..12700; every other such entry fails in the
\* construction with the out-of-range error; the values of a record are
\* word 0 and the signed words 1 and 2 divided by 100.
C16_LabSignedRangeGate ==
  (pc = "entry_done" /\ Word(buf, 0) = 7 /\ trace[1].stage # "read_string") =>
    /\ GatedBy(trace[1], LabGate(buf))
    /\ trace[1].err = "none" =>
         \A i \in 1..3 :
           trace[1].swatch._color_values[i].value =
             Frac(IF i = 1 THEN Word(buf, 1) ELSE Signed(Word(buf, i)),
                  100)

\* A LAB entry whose channel 1 is 0x8000, refused in the construction.
C16_Witness ==
  /\ pc = "entry_done"
  /\ Word(buf, 0) = 7
  /\ Word(buf, 1) = 10000
  /\ Word(buf, 2) = 32768
  /\ Word(buf, 3) = 12700
  /\ trace[1].info.c_vals[2] = 0 - 32768
  /\ trace[1].stage = "ColorSwatch"
  /\ exc = "out_of_range"

\* C17: read_next_swatch applied to the text of str(r), for a swatch r of
\* a decodable colour space, ends by returning a swatch equal to r: once
\* it has left the scan for the start of the block and its header, it has
\* returned, without an exception, a record with the name, colour space
\* and values of r.
C17_RoundTrip ==
  pc \notin {"scan", "header"} =>
    /\ pc = "returned"
    /\ exc = "none"
    /\ ret = obj

\* The channel labels of a colour space as __str__ is to write them.
LowerLabels(cs) ==
  CASE cs = "RGB" -> <<"red", "green", "blue">>
    [] cs = "HSB" -> <<"hue", "saturation", "brightness">>
    [] cs = "CMYK" -> <<"cyan", "magenta", "yellow", "black">>
    [] cs = "LAB" -> <<"lightness", "chrominance_a", "chrominance_b">>
    [] cs = "GRAYSCALE" -> <<"brightness">>

\* h hundredths is the number v to 2 decimals: at most half a hundredth off.
Rounds2(v, h) ==
  LET d == 100 * v.num - h * v.den
  IN 2 * d <= v.den /\ 0 - 2 * d <= v.den

\* C18: str() of a valid record with n channels is 'ColorSwatch {', the
\* name line, the color_space line with the variant's name, 'values: {',
\* then n value lines, the i-th holding the lower-case label of channel i
\* and its value to 2 decimals, then the two closing-brace lines and an
\* empty line; the record is unchanged.
C18_StrShape ==
  (op.kind = "__str__" /\ ValidRecord(op.before)) =>
    LET t == op.text
        cs == color_space(op.before)
        n == Len(COLOR_SPACE_LABELS(cs))
    IN /\ obj = op.before
       /\ Len(t) = n + 7
       /\ t[1] = Line("ColorSwatch {", "", <<>>)
       /\ t[2] = Line("    name: '<>',", "", obj.name)
       /\ t[3] = Line("    color_space: <>,", cs, <<>>)
       /\ t[4] = Line("    values: {", "", <<>>)
       /\ \A i \in 1..n :
            /\ t[4 + i].text = "        <> = <>,"
            /\ t[4 + i].key = LowerLabels(cs)[i]
            /\ Len(t[4 + i].arg) = 1
            /\ Rounds2(obj._color_values[i].value, t[4 + i].arg[1])
       /\ t[n + 5] = Line("    }", "", <<>>)
       /\ t[n + 6] = Line("}", "", <<>>)
       /\ t[n + 7] = Line("", "", <<>>)

\* str() of a CMYK swatch named 'A' with values 100, 0.125, 0.625, 100.
C18_Witness ==
  /\ op.kind = "__str__"
  /\ color_space(obj) = "CMYK"
  /\ obj.name = <<65>>
  /\ Len(op.text) = 11
  /\ op.text[6].key = "magenta"
  /\ op.text[6].arg = <<12>>
  /\ op.text[7].arg = <<62>>

\* The entry read by the call e of read_color_values lies fully within the
\* file b: its 14 fixed bytes and the units its stored name length declares.
FullyWithin(e, b) ==
  /\ Len(e.info.len_bytes) = 4
  /\ StoredU32(e.info.len_bytes).hi = 0
  /\ e.info.start + 14 + 2 * StoredU32(e.info.len_bytes).lo <= Len(b)

\* C19: a call of read_color_values on an entry that lies fully within the
\* file and declares name length L, when it returns a record or fails with
\* the unsupported-colour-space or the out-of-range error, leaves the read
\* position behind the whole entry: its code, four channel words, 4-byte
\* length and L two-byte units, which are 14 + 2 L bytes; the next call
\* starts there.
C19_CursorAdvancesByEntryLength ==
  \A i \in 1..Len(trace) :
    LET e == trace[i]
    IN (/\ FullyWithin(e, buf)
        /\ e.err \in {"none", "uninterpretable_color_space", "out_of_range"})
       => /\ e.pos = e.info.start + 14 + 2 * StoredU32(e.info.len_bytes).lo
          /\ i < Len(trace) => trace[i + 1].info.start = e.pos

C21_AllOrNothing ==
  /\ (op.kind = "ColorSwatch" /\ op.err # "none") =>
       (pc = "no_object" /\ obj = ColorSwatch_new)
  /\ (op.kind \in {"color_space", "color_values"} /\ op.err # "none") =>
       /\ obj.name = op.before.name
       /\ obj._color_space = op.before._color_space
       /\ obj._color_values = op.before._color_values
  /\ pc = "object" =>
       /\ color_space(obj) \in TableSpaces
       /\ [i \in 1..Len(obj._color_values) |-> obj._color_values[i].label]
            = COLOR_SPACE_LABELS(color_space(obj))

\* An assignment of 0, 0, -1 to an RGB swatch holding other values, refused
\* at its third value.
C21_Witness ==
  /\ pc = "object"
  /\ op.kind = "color_values"
  /\ op.err = "out_of_range"
  /\ op.values = <<Frac(0, 1), Frac(0, 1), Frac(0 - 1, 1)>>
  /\ color_space(obj) = "RGB"
  /\ obj._color_values[1].value = Frac(255, 1)
  /\ obj = op.before

\* C22: read_next_swatch ends on every text file, also on one that has no
\* line with 'ColorSwatch' left to read: it eventually returns or raises.
C22_ReadNextSwatchTerminates == <>(pc \in {"returned", "raised"})

====
